---- MODULE Spec2Model ----
(***************************************************************************)
(* Model of the BOIFI recommender's optimization loop: one session         *)
(* (models/session.py), the session manager that stores it                 *)
(* (services/session_manager.py), the worker that drives it                *)
(* (coordinator/worker.py) and the executor client with its circuit        *)
(* breaker (clients/executor_client.py).                                   *)
(*                                                                         *)
(* Everything runs on one asyncio event loop: a coroutine runs without     *)
(* interruption until it awaits.  The worker awaits only inside            *)
(* ExecutorClient.apply_policy (the HTTP post and the backoff sleep), so   *)
(* other tasks (the HTTP stop handler, a health check, the clock) act only *)
(* while the worker is at one of those two points, or is not running.      *)
(***************************************************************************)
EXTENDS Integers, Sequences, FiniteSets, TLC

\* ---------------------------------------------------------------- bounds
\* Configuration values (arguments of OptimizationSession, ExecutorClient and
\* CircuitBreaker; their defaults are 100, 5, 5 and 60 s), kept small.
max_trials == 3
max_retries == 2
failure_threshold == 2
recovery_timeout == 1
\* Bounds of the exploration.
MaxTime == 4
MaxHealth == 1
MaxRuns == 2
\* Bounds of the session-object and backoff explorations.
MaxAdd == 2
MaxUtc == 2
MaxCrashes == 1
\* Bounds of the optimizer exploration.
MaxRecord == 5
MaxPropose == 2

\* ------------------------------------------------------------- constants
Statuses == {"PENDING", "RUNNING", "STOPPING", "COMPLETED", "FAILED"}
CLOSED == "closed"
OPEN == "open"
HALF_OPEN == "half_open"
\* The marker of a raised ValueError
Raise == "ValueError"
\* last_failure_time = None
NoTime == -1
\* total_score values the analyzer returns for the observations drawn here
Scores == {0, 7}
\* severity_score = None
NoScore == -1
\* best_result = None
NoBest == [severity_score |-> -1, trial_id |-> -1]
\* Settings.OPTIMIZER_INITIAL_POINTS
cold_start_n == 5
\* A small search space: a categorical dimension and a numeric one, in the
\* order of search_space_config["dimensions"].
SearchSpace ==
    <<[name |-> "fault_type", type |-> "categorical",
       values |-> {"abort", "delay"}, low |-> 0, high |-> 0],
      [name |-> "percentage", type |-> "integer",
       values |-> {}, low |-> 0, high |-> 2]>>

\* The value a plan gives a dimension: a category or a number.
Category(c) == [category |-> c, number |-> 0]
Number(n) == [category |-> "", number |-> n]
NoValue == [category |-> "", number |-> -1]

\* What a draw for one dimension can give: random.choice(dim.categories), or
\* dim.low + random.random() * (dim.high - dim.low), a number of [low, high)
\* (its integers stand for it).
Draws(dim) ==
    IF dim.type = "categorical"
    THEN {Category(c) : c \in dim.values}
    ELSE {Number(n) : n \in dim.low .. (dim.high - 1)}

\* The plans propose() can build by drawing every dimension from its own
\* range, and "no plan" (propose() raised)
Points ==
    {[fault_type |-> v1, percentage |-> v2] :
        v1 \in Draws(SearchSpace[1]), v2 \in Draws(SearchSpace[2])}
NoPoint == [fault_type |-> NoValue, percentage |-> NoValue]
\* str(e) of exceptions that reach the except branch of the worker's run()
Errors == {"Cannot transition from COMPLETED to COMPLETED", "division by zero"}
\* What one HTTP post to /v1/policies can come back with
Responses == {"200", "200_undecodable", "5xx", "4xx", "timeout", "error"}

VARIABLES
    status,           \* session.status
    trials,           \* session.trials: sequence of [trial_id, severity_score]
    best_result,      \* session.best_result
    disk,             \* the snapshot file {id}.json
    pc,               \* where the worker's run() coroutine is
    stop_flag,        \* worker.stop_flag
    trial_id,         \* the loop variable of run()
    attempt,          \* the loop variable of apply_policy()
    history,          \* len(optimizer.observation_history_y)
    runs,             \* how many times run() was started
    circuit_breaker,  \* [state, failure_count, last_failure_time]
    now,              \* time.time()
    consec,           \* history: recorded failures since the last recorded success
    stopAccepted,     \* history: stop_session found the session RUNNING
    healthChecks,     \* history: number of health checks made
    posts,            \* history: requests sent by the current / last apply_policy call
    last_response,    \* history: what the last request came back with
    apply_result,     \* history: what the last apply_policy call returned
    calls             \* history: the propose() and apply_policy() calls made so far

vars == <<status, trials, best_result, disk, pc, stop_flag, trial_id, attempt,
          history, runs, circuit_breaker, now, consec, stopAccepted,
          healthChecks, posts, last_response, apply_result, calls>>

sessionVars == <<status, trials, best_result, disk>>
clientVars == <<circuit_breaker, consec, posts, last_response, apply_result, attempt>>

\* ------------------------------------------------ models/session.py
\* (variant: no check of the current status)
transition_to_running_any(s) == "RUNNING"

transition_to_running(s) == IF s # "PENDING" THEN Raise ELSE "RUNNING"

transition_to_stopping(s) == IF s # "RUNNING" THEN Raise ELSE "STOPPING"

\* (variant: no check of the current status)
transition_to_completed_any(s) == "COMPLETED"

transition_to_completed(s) ==
    IF s \notin {"RUNNING", "STOPPING"} THEN Raise ELSE "COMPLETED"

transition_to_failed(s) == "FAILED"

\* add_trial: the new best_result
\* (variant: the first scored trial stays the best)
add_trial_best_first(best, trial) ==
    IF trial.severity_score # NoScore /\ best = NoBest
    THEN [severity_score |-> trial.severity_score, trial_id |-> trial.trial_id]
    ELSE best

\* (variant: every scored trial becomes the best)
add_trial_best_last(best, trial) ==
    IF trial.severity_score # NoScore
    THEN [severity_score |-> trial.severity_score, trial_id |-> trial.trial_id]
    ELSE best

add_trial_best(best, trial) ==
    IF /\ trial.severity_score # NoScore
       /\ (best = NoBest \/ trial.severity_score > best.severity_score)
    THEN [severity_score |-> trial.severity_score, trial_id |-> trial.trial_id]
    ELSE best

\* ------------------------------------------------ services/session_manager.py
\* _save_session: what is written to {id}.json
\* (variant: the best result is left out of the snapshot)
Snapshot_nobest(s, t, b) == [status |-> s, trials |-> t, best_result |-> NoBest]

Snapshot(s, t, b) == [status |-> s, trials |-> t, best_result |-> b]

\* stop_session: the status it leaves (both transitions run under one lock)
\* (variant: the status check also lets a PENDING session through)
stop_session_any(s) == IF s \in {"PENDING", "RUNNING"} THEN "COMPLETED" ELSE s

\* (variant: a STOPPING session is completed as well)
stop_session_stopping(s) == IF s \in {"RUNNING", "STOPPING"} THEN "COMPLETED" ELSE s

stop_session(s) ==
    IF s = "RUNNING"
    THEN transition_to_completed(transition_to_stopping(s))
    ELSE s

\* trials_completed and progress_percent (the percentage rounded down)
trials_completed(t) == Len(t)

progress_percent(t) ==
    IF max_trials = 0 THEN 0
    ELSE LET p == (trials_completed(t) * 100) \div max_trials
         IN  IF p > 100 THEN 100 ELSE p

\* ------------------------------------------------ clients/executor_client.py
\* (variant: >= instead of > in the recovery test)
Elapsed_ge(cb, t) ==
    /\ cb.last_failure_time # NoTime
    /\ cb.last_failure_time # 0
    /\ t - cb.last_failure_time >= recovery_timeout

Elapsed(cb, t) ==
    /\ cb.last_failure_time # NoTime
    /\ cb.last_failure_time # 0
    /\ t - cb.last_failure_time > recovery_timeout

\* can_attempt: the answer and the breaker it leaves
can_attempt(cb, t) ==
    IF cb.state = CLOSED THEN [ok |-> TRUE, cb |-> cb]
    ELSE IF cb.state = OPEN
         THEN IF Elapsed(cb, t)
              THEN [ok |-> TRUE, cb |-> [cb EXCEPT !.state = HALF_OPEN]]
              ELSE [ok |-> FALSE, cb |-> cb]
         ELSE [ok |-> TRUE, cb |-> cb]

\* (variant: the failure count is not zeroed)
record_success_keep(cb) ==
    IF cb.state = HALF_OPEN THEN [cb EXCEPT !.state = CLOSED] ELSE cb

\* (variant: a success zeroes the failure count in every state)
record_success_zero(cb) ==
    IF cb.state = HALF_OPEN
    THEN [cb EXCEPT !.state = CLOSED, !.failure_count = 0]
    ELSE [cb EXCEPT !.failure_count = 0]

record_success(cb) ==
    IF cb.state = HALF_OPEN
    THEN [cb EXCEPT !.state = CLOSED, !.failure_count = 0]
    ELSE IF cb.state = CLOSED
         THEN [cb EXCEPT !.failure_count = 0]
         ELSE cb

\* (variant: > instead of >= in the threshold test)
record_failure_late(cb, t) ==
    [state |-> IF cb.failure_count + 1 > failure_threshold THEN OPEN ELSE cb.state,
     failure_count |-> cb.failure_count + 1,
     last_failure_time |-> t]

record_failure(cb, t) ==
    [state |-> IF cb.failure_count + 1 >= failure_threshold THEN OPEN ELSE cb.state,
     failure_count |-> cb.failure_count + 1,
     last_failure_time |-> t]

\* `for attempt in range(self.max_retries)`: is there an attempt after a?
\* (variant: one attempt fewer)
has_next_attempt_short(a) == a + 2 < max_retries

has_next_attempt(a) == a + 1 < max_retries

\* ------------------------------------------------ initial state
\* ------------------------------------------------ the session object on its own
\* A client of the SessionManager that holds the session object, calls its
\* methods and then update_session, as the worker does; the process may
\* crash and be started again.
VARIABLES
    session,          \* the OptimizationSession: status, trials, best_result
                      \* and the timestamps started_at, completed_at, updated_at
    in_sessions,      \* the session's id is a key of SessionManager._sessions
    file,             \* {id}.json: the snapshot written and whether it is whole
    proc,             \* "up", "saving" (inside _save_session) or "down"
    utcnow,           \* datetime.utcnow()
    last_call,        \* history: the last method called and whether it raised
    crashes,          \* history: number of crashes
    raised_error      \* history: str(e) of the exception the caller caught

sessionApiVars ==
    <<session, in_sessions, file, proc, utcnow, last_call, crashes, raised_error>>

\* ------------------------------------------------ the backoff on its own
VARIABLES
    base_delay,       \* ExecutorClient.base_delay, in units of 10 ms
    max_delay,        \* ExecutorClient.max_delay, in units of 10 ms
    jitter_percent,   \* ExecutorClient.jitter_percent
    call_attempt,     \* the loop variable of the apply_policy call
    call_pc,          \* "post" while the call runs, "returned" after
    sleeps            \* history: the sleeps taken by the call, in units of 10 ms

backoffVars == <<base_delay, max_delay, jitter_percent, call_attempt, call_pc, sleeps>>

\* ------------------------------------------------ the optimizer on its own
VARIABLES
    opt_history,      \* observation_history_y, the same for both proposers
    opt_plans,        \* history: the plans each of two proposers has returned
    opt_source        \* history: how the last propose() got its plan

optimizerVars == <<opt_history, opt_plans, opt_source>>

\* ------------------------------------------------ the analyzer on its own
VARIABLES
    analyzer,         \* the AnalyzerService built, or the error of building it
    severity,         \* history: the last two calculate_severity calls
    bug_scored        \* history: the last BugScorer.score call

analyzerVars == <<analyzer, severity, bug_scored>>

\* ------------------------------------------------ the space converter on its own
VARIABLES
    conditional_strategy,  \* SpaceConverter.conditional_strategy
    point_dict,            \* the plan given to dict_to_list
    point_list,            \* what dict_to_list returned (or that it raised)
    round_trip             \* list_to_dict(point_list)

converterVars == <<conditional_strategy, point_dict, point_list, round_trip>>

\* ------------------------------------------------ the HTTP boundary and the store
VARIABLES
    request_space,    \* search_space_config of the POST /v1/optimization/sessions request
    response,         \* history: the status code that request was answered with
    store_has,        \* the session's id is a key of SessionManager._sessions
    store_session,    \* the OptimizationSession object: status, trials, best score
    store_file,       \* {id}.json: whether it exists and the snapshot in it
    worker_tasks,     \* history: worker tasks the HTTP layer has started
    worker_pc,        \* a worker some caller constructed for the id: where run() is
    reader,           \* whether a reader holds get_session's result, and what the
                      \* session was when it got it
    deleted           \* history: delete_session returned True

storeVars == <<request_space, response, store_has, store_session, store_file,
               worker_tasks, worker_pc, reader, deleted>>

moreVars == <<optimizerVars, analyzerVars, converterVars, storeVars>>

otherVars == <<sessionApiVars, backoffVars, moreVars>>

NewSession ==
    [status |-> "PENDING", trials |-> <<>>, best_result |-> NoBest,
     started_at |-> NoTime, completed_at |-> NoTime, updated_at |-> 1]

InitSessionApi ==
    /\ session = NewSession
    /\ in_sessions = TRUE
    /\ file = [snap |-> NewSession, whole |-> TRUE]
    /\ proc = "up"
    /\ utcnow = 1
    /\ last_call = [op |-> "create_session", raised |-> FALSE, returned |-> "none"]
    /\ crashes = 0
    /\ raised_error = "none"

\* ------------------------------------------------ analyzer/service.py
\* The repository has two analyzers: boifi_recommender/analyzer/service.py,
\* which the worker imports, and src/analyzer/service.py.  Scores are in
\* thousandths (10.0 is 10000), latencies in ms; the total is kept as the
\* fraction num/den.
Analyzers == {"boifi_recommender.analyzer", "analyzer"}
\* latency_ms = None
NoLatency == -1
Latencies == {0, 100, 200, 300, 500, 600, 1000, 1200}
Observations ==
    [status_code : {200, 503}, latency_ms : Latencies \cup {NoLatency}]
\* (baseline_ms, threshold_ms): the defaults of the two analyzers and a
\* baseline of 0
LatencyConfigs == {<<100, 500>>, <<200, 1000>>, <<0, 500>>}
\* (bug, perf, struct) weights: the defaults of the two analyzers and zero
WeightConfigs == {<<1, 1, 1>>, <<10, 2, 5>>, <<0, 0, 0>>}

Clamp(lo, hi, x) == IF x < lo THEN lo ELSE IF x > hi THEN hi ELSE x

\* BugScorer.score for an observation with no logs and error_rate 0
bug_score(obs) ==
    IF obs.status_code >= 500 THEN 10000
    ELSE IF obs.status_code >= 400 THEN 8000
    ELSE 0

\* The observations BugScorer.score is given: a status code or None, the log
\* lines (boifi_recommender reads them from "error_logs") and the error rate
\* in percent.
NoStatus == -1
LogLines == {"request served", "error: timeout", "ERROR upstream reset"}
BugObservations ==
    [status_code : {NoStatus, 200, 404, 503, 599},
     logs : {<<>>, <<"request served">>, <<"error: timeout">>,
             <<"request served", "ERROR upstream reset">>},
     error_rate : {0, 50, 100}]

\* `keyword in log` for some keyword of critical_keywords, on LogLines
has_critical_keyword(log) == log \in {"ERROR upstream reset"}

\* boifi_recommender BugScorer.score
bug_score_boifi(o) ==
    LET sc == o.status_code
        truthy == sc # NoStatus /\ sc # 0
    IN  IF truthy /\ 500 <= sc /\ sc < 600 THEN 10000
        ELSE IF truthy /\ 400 <= sc /\ sc < 500 THEN 8000
        ELSE IF Len(o.logs) > 0 THEN 6000
        ELSE IF o.error_rate > 0 THEN 3000
        ELSE 0

\* src/analyzer BugScorer.score; a status code of None raises in the first
\* comparison and the except branch returns 0.0
bug_score_analyzer(o) ==
    IF o.status_code = NoStatus THEN 0
    ELSE IF o.status_code >= 500 THEN 10000
    ELSE IF o.status_code >= 400 THEN 8000
    ELSE IF \E i \in 1..Len(o.logs) : has_critical_keyword(o.logs[i]) THEN 6000
    ELSE IF o.error_rate > 0 THEN 3000
    ELSE 0

BugScorer_score(variant, o) ==
    IF variant = "analyzer" THEN bug_score_analyzer(o) ELSE bug_score_boifi(o)

NoBugScore ==
    [called |-> FALSE, variant |-> "none",
     obs |-> [status_code |-> NoStatus, logs |-> <<>>, error_rate |-> 0],
     score |-> 0]

\* boifi_recommender PerformanceScorer.score
perf_score_boifi(B, T, A) ==
    IF A = NoLatency THEN 0
    ELSE IF A <= B THEN 0
    ELSE IF A >= T THEN 9000
    ELSE LET ratio9 == ((A - B) * 9000) \div (T - B)
         IN  IF ratio9 > 10000 THEN 10000 ELSE ratio9

\* src/analyzer PerformanceScorer.score; a latency of None raises inside
\* the try block and the except branch returns 0.0
perf_score_analyzer(B, T, A) ==
    IF B <= 0 THEN 0
    ELSE IF A = NoLatency THEN 0
    ELSE IF A > T THEN 10000
    ELSE IF T > B THEN Clamp(0, 10000, ((A - B) * 9000) \div (T - B))
    ELSE 0

\* (variant: the score falls back to 0 above the threshold)
perf_score_dip(variant, B, T, A) ==
    IF A # NoLatency /\ A > T THEN 0 ELSE perf_score_boifi(B, T, A)

perf_score(variant, B, T, A) ==
    IF variant = "analyzer"
    THEN perf_score_analyzer(B, T, A)
    ELSE perf_score_boifi(B, T, A)

\* AnalyzerService.__init__: boifi_recommender normalises the weights by
\* their sum at construction (ZeroDivisionError when it is 0); src/analyzer
\* keeps the config.
AnalyzerService(variant, lat, w) ==
    [variant |-> variant, baseline |-> lat[1], threshold |-> lat[2], weights |-> w,
     built |-> ~(variant = "boifi_recommender.analyzer" /\ w[1] + w[2] + w[3] = 0)]

NoSeverity ==
    [called |-> FALSE, status_code |-> 0, latency_ms |-> NoLatency,
     perf |-> 0, num |-> 0, den |-> 1]

\* AnalyzerService.calculate_severity for an observation with no trace
\* (StructureScorer gives 0.0): the weighted mean, clamped to [0, 10];
\* src/analyzer returns 0.0 when the weights sum to 0.
calculate_severity(an, obs) ==
    LET bug == bug_score(obs)
        perf == perf_score(an.variant, an.baseline, an.threshold, obs.latency_ms)
        w == an.weights
        den == w[1] + w[2] + w[3]
        num == w[1] * bug + w[2] * perf + w[3] * 0
    IN  [called |-> TRUE, status_code |-> obs.status_code,
         latency_ms |-> obs.latency_ms, perf |-> perf,
         num |-> IF den = 0 THEN 0 ELSE Clamp(0, 10000 * den, num),
         den |-> IF den = 0 THEN 1 ELSE den]

\* The worker's analyzer: AnalyzerService() with its defaults.
InitAnalyzer ==
    /\ analyzer = AnalyzerService("boifi_recommender.analyzer", <<100, 500>>, <<1, 1, 1>>)
    /\ severity = <<NoSeverity, NoSeverity>>
    /\ bug_scored = NoBugScore

\* ------------------------------------------------ optimizer/space_converter.py
\* A search space after the schema in the module's docstring: a categorical
\* dimension with a default, a required integer dimension without one, and
\* a real dimension that is conditional on fault_type.  Numbers are in
\* tenths, so that 15 is 1.5.
DimensionNames == <<"fault_type", "percentage", "delay_seconds">>
FaultTypes == {"delay", "abort"}
PercentageBounds == <<-10, 20>>
DelayBounds == <<5, 15>>

\* A plan is a dict: `keys` are the names it has; a field whose name is not
\* in `keys` holds a filler.
EmptyDict == [keys |-> {}, fault_type |-> "", percentage |-> 0, delay_seconds |-> 0]
Dicts ==
    {p \in [keys : SUBSET {"fault_type", "percentage", "delay_seconds"},
            fault_type : FaultTypes \cup {"", "error_injection"},
            percentage : {-5, 0, 10, 15, 20, 30},
            delay_seconds : {0, 5, 12, 15, 20}] :
        /\ ("fault_type" \in p.keys) = (p.fault_type # "")
        /\ "percentage" \notin p.keys => p.percentage = 0
        /\ "delay_seconds" \notin p.keys => p.delay_seconds = 0}

\* _convert_to_skopt_space: "expand" keeps every dimension, "filter" only
\* those without a condition.
dimension_names(strategy) ==
    IF strategy = "expand" THEN DimensionNames ELSE SubSeq(DimensionNames, 1, 2)

\* float(value) of a number of this size is the same number
float_of(v) == v
\* int(value_float) truncates toward zero
int_of(f) == IF f >= 0 THEN (f \div 10) * 10 ELSE 0 - (((0 - f) \div 10) * 10)

\* (variant: a dimension with a default always gets its default)
fill_default_always(present, value, hasDefault, default) ==
    IF hasDefault THEN [ok |-> TRUE, v |-> default]
    ELSE [ok |-> present, v |-> value]

\* dict_to_list, second loop: a slot left at None gets the default of its
\* dimension, or ValueError when there is none
fill_default(present, value, hasDefault, default) ==
    IF present THEN [ok |-> TRUE, v |-> value]
    ELSE IF hasDefault THEN [ok |-> TRUE, v |-> default]
    ELSE [ok |-> FALSE, v |-> value]

\* dict_to_list, first loop, for a real or integer dimension
convert_number(type, bounds, value) ==
    LET value_float == float_of(value) IN
    IF ~(bounds[1] <= value_float /\ value_float <= bounds[2])
    THEN [ok |-> FALSE, v |-> value]
    ELSE [ok |-> TRUE, v |-> IF type = "integer" THEN int_of(value_float) ELSE value_float]

\* dict_to_list for the three dimensions: [raised, values]
dict_to_list(strategy, p) ==
    LET ft == IF "fault_type" \in p.keys /\ p.fault_type \notin FaultTypes
              THEN [ok |-> FALSE, v |-> p.fault_type]
              ELSE fill_default("fault_type" \in p.keys, p.fault_type, TRUE, "delay")
        pcn == IF "percentage" \in p.keys
               THEN convert_number("integer", PercentageBounds, p.percentage)
               ELSE [ok |-> TRUE, v |-> 0]
        pc_ == IF pcn.ok
               THEN fill_default("percentage" \in p.keys, pcn.v, FALSE, 0)
               ELSE pcn
        dsn == IF "delay_seconds" \in p.keys
               THEN convert_number("real", DelayBounds, p.delay_seconds)
               ELSE [ok |-> TRUE, v |-> 0]
        ds == IF dsn.ok
              THEN fill_default("delay_seconds" \in p.keys, dsn.v, TRUE, 10)
              ELSE dsn
    IN  IF strategy = "expand"
        THEN IF ft.ok /\ pc_.ok /\ ds.ok
             THEN [raised |-> FALSE, values |-> <<ft.v, pc_.v, ds.v>>]
             ELSE [raised |-> TRUE, values |-> <<>>]
        ELSE IF ft.ok /\ pc_.ok
             THEN [raised |-> FALSE, values |-> <<ft.v, pc_.v>>]
             ELSE [raised |-> TRUE, values |-> <<>>]

\* list_to_dict: zip(dimension_names, point_list)
list_to_dict(strategy, values) ==
    [keys |-> {dimension_names(strategy)[i] : i \in 1..Len(values)},
     fault_type |-> values[1],
     percentage |-> values[2],
     delay_seconds |-> IF Len(values) >= 3 THEN values[3] ELSE 0]

InitConverter ==
    /\ conditional_strategy = "expand"
    /\ point_dict = EmptyDict
    /\ point_list = [raised |-> FALSE, values |-> <<>>]
    /\ round_trip = EmptyDict

InitOptimizer ==
    /\ opt_history = <<>>
    /\ opt_plans = <<<<>>, <<>>>>
    /\ opt_source = "none"

\* The ExecutorClient defaults: 0.5 s, 8.0 s, 10 %.
InitBackoff ==
    /\ base_delay = 50
    /\ max_delay = 800
    /\ jitter_percent = 10
    /\ call_attempt = 0
    /\ call_pc = "post"
    /\ sleeps = <<>>

\* A worker constructed for a session the SessionManager holds with status s
\* and no trials: a new one (PENDING), or one loaded from its snapshot file.
InitLoaded(s) ==
    /\ status = s
    /\ trials = <<>>
    /\ best_result = NoBest
    /\ disk = Snapshot(s, <<>>, NoBest)
    /\ pc = "idle"
    /\ stop_flag = FALSE
    /\ trial_id = 0
    /\ attempt = 0
    /\ history = 0
    /\ calls = [propose |-> 0, apply |-> 0]
    /\ runs = 0
    /\ circuit_breaker = [state |-> CLOSED, failure_count |-> 0,
                          last_failure_time |-> NoTime]
    /\ now = 1
    /\ consec = 0
    /\ stopAccepted = FALSE
    /\ healthChecks = 0
    /\ posts = 0
    /\ last_response = "none"
    /\ apply_result = "none"

\* ------------------------------------------------ the HTTP boundary and the store
\* What a POST /v1/optimization/sessions request may carry as its search space:
\* a well-formed one, the malformed ones, and a value that is no JSON object.
MalformedSpaces ==
    {"duplicate_names", "low_ge_high", "default_out_of_bounds", "one_category",
     "no_dimensions"}

RequestSpaces == {"valid", "not_a_dict"} \cup MalformedSpaces

\* CreateSessionRequest: pydantic checks only that search_space_config is a dict
validates(space) == space # "not_a_dict"

\* the session object as the store's clients see it
NoSession == [status |-> "none", trials |-> 0, best |-> 0]
CreatedSession == [status |-> "PENDING", trials |-> 0, best |-> 0]
NoFile == [exists |-> FALSE, snap |-> NoSession]

\* _save_session: {id}.json holds the session's to_dict()
save_session(s) == [exists |-> TRUE, snap |-> s]

InitStore ==
    /\ request_space = "none"
    /\ response = 0
    /\ store_has = FALSE
    /\ store_session = NoSession
    /\ store_file = NoFile
    /\ worker_tasks = 0
    /\ worker_pc = "none"
    /\ reader = [holds |-> FALSE, seen |-> NoSession]
    /\ deleted = FALSE

InitWorker == InitLoaded("PENDING")

Init ==
    /\ InitWorker /\ InitSessionApi /\ InitBackoff
    /\ InitOptimizer /\ InitAnalyzer /\ InitConverter /\ InitStore

\* The worker is suspended in an await, has not started, or has returned.
AtSuspension == pc \in {"idle", "post", "sleep", "done"}

\* ------------------------------------------------ coordinator/worker.py
\* The except branch of run(): transition_to_failed, update_session, return.
Failed(t, b) ==
    /\ status' = transition_to_failed(status)
    /\ trials' = t
    /\ best_result' = b
    /\ disk' = Snapshot(status', t, b)
    /\ pc' = "done"

\* `continue` / the end of the loop body: on to the next value of trial_id.
\* (variant: the loop variable does not advance)
NextIteration_same ==
    /\ trial_id' = trial_id
    /\ pc' = "top"

NextIteration ==
    /\ trial_id' = trial_id + 1
    /\ pc' = "top"

\* run() up to the loop: get_session, transition_to_running, update_session.
Run ==
    /\ pc \in {"idle", "done"}
    /\ runs < MaxRuns
    /\ runs' = runs + 1
    /\ LET s == transition_to_running(status) IN
       IF s = Raise
       THEN /\ Failed(trials, best_result)
            /\ UNCHANGED trial_id
       ELSE /\ status' = s
            /\ disk' = Snapshot(s, trials, best_result)
            /\ trial_id' = 0
            /\ pc' = "top"
            /\ UNCHANGED <<trials, best_result>>
    /\ UNCHANGED <<stop_flag, history, calls, now, stopAccepted, healthChecks, clientVars>>
    /\ UNCHANGED otherVars

\* After the loop: transition_to_completed, update_session.
Finish ==
    /\ LET s == transition_to_completed(status) IN
       IF s = Raise
       THEN Failed(trials, best_result)
       ELSE /\ status' = s
            /\ disk' = Snapshot(s, trials, best_result)
            /\ pc' = "done"
            /\ UNCHANGED <<trials, best_result>>
    /\ UNCHANGED <<trial_id, history, calls, clientVars>>

\* One more call counted; the count stops one past the budget.
CountCall(n) == IF n > max_trials THEN n ELSE n + 1

\* The top of one iteration up to the first await: the stop check, propose(),
\* and apply_policy() up to its first post (or its refusal).
Iterate ==
    \E proposeRaises \in (IF history = 0 THEN {FALSE} ELSE BOOLEAN) :
       IF proposeRaises
       THEN /\ Failed(trials, best_result)
            /\ UNCHANGED <<trial_id, history, clientVars>>
            /\ calls' = [calls EXCEPT !.propose = CountCall(@)]
       ELSE LET r == can_attempt(circuit_breaker, now) IN
            /\ circuit_breaker' = r.cb
            /\ attempt' = 0
            /\ last_response' = "none"
            /\ UNCHANGED <<sessionVars, history, consec>>
            /\ calls' = [propose |-> CountCall(calls.propose), apply |-> CountCall(calls.apply)]
            /\ IF r.ok
               THEN /\ pc' = "post"
                    /\ posts' = 1
                    /\ apply_result' = "pending"
                    /\ UNCHANGED trial_id
               ELSE /\ posts' = 0
                    /\ apply_result' = "null"
                    /\ NextIteration

LoopTop ==
    /\ pc = "top"
    /\ IF trial_id >= max_trials \/ stop_flag THEN Finish ELSE Iterate
    /\ UNCHANGED <<stop_flag, runs, now, stopAccepted, healthChecks>>
    /\ UNCHANGED otherVars

\* The loop body after apply_policy returned an observation: score it,
\* add the trial, record it with the optimizer, update_session.
RecordTrial ==
    \E scoreRaises \in BOOLEAN :
    \E sev \in Scores :
    \E recordRaises \in (IF history + 1 >= 2 THEN BOOLEAN ELSE {FALSE}) :
       IF scoreRaises
       THEN /\ Failed(trials, best_result)
            /\ UNCHANGED <<trial_id, history, calls>>
       ELSE LET trial == [trial_id |-> trial_id, severity_score |-> sev]
                t == Append(trials, trial)
                b == add_trial_best(best_result, trial)
            IN  /\ history' = history + 1
                /\ UNCHANGED calls
                /\ IF recordRaises
                   THEN /\ Failed(t, b)
                        /\ UNCHANGED trial_id
                   ELSE /\ trials' = t
                        /\ best_result' = b
                        /\ disk' = Snapshot(status, t, b)
                        /\ status' = status
                        /\ NextIteration

\* apply_policy returned None: the worker logs and continues.
\* (variant: a None observation is treated as an error of the run)
SkipTrial_fails ==
    /\ Failed(trials, best_result)
    /\ UNCHANGED <<trial_id, history, calls>>

\* (variant: a None observation does not advance the loop variable)
SkipTrial_free ==
    /\ pc' = "top"
    /\ UNCHANGED <<sessionVars, trial_id, history, calls>>

SkipTrial ==
    /\ NextIteration
    /\ UNCHANGED <<sessionVars, history, calls>>

\* The awaited post comes back.
\* (variant: a 4xx answer is retried like a timeout)
PostReturns_retry4xx(resp) ==
    /\ pc = "post"
    /\ last_response' = resp
    /\ UNCHANGED <<stop_flag, runs, now, stopAccepted, healthChecks, attempt, posts>>
    /\ UNCHANGED otherVars
    /\ CASE resp = "200" ->
                /\ circuit_breaker' = record_success(circuit_breaker)
                /\ consec' = 0
                /\ apply_result' = "observation"
                /\ RecordTrial
         [] resp = "200_undecodable" ->
                /\ circuit_breaker' = record_failure(record_success(circuit_breaker), now)
                /\ consec' = 1
                /\ apply_result' = "null"
                /\ SkipTrial
         [] resp = "5xx" ->
                /\ pc' = "sleep"
                /\ UNCHANGED <<circuit_breaker, consec, apply_result, sessionVars,
                               history, calls, trial_id>>
         [] resp \in {"timeout", "4xx"} ->
                /\ circuit_breaker' = record_failure(circuit_breaker, now)
                /\ consec' = consec + 1
                /\ pc' = "sleep"
                /\ UNCHANGED <<apply_result, sessionVars, history, calls, trial_id>>
         [] resp = "error" ->
                /\ circuit_breaker' = record_failure(circuit_breaker, now)
                /\ consec' = consec + 1
                /\ apply_result' = "null"
                /\ SkipTrial

PostReturns(resp) ==
    /\ pc = "post"
    /\ last_response' = resp
    /\ UNCHANGED <<stop_flag, runs, now, stopAccepted, healthChecks, attempt, posts>>
    /\ UNCHANGED otherVars
    /\ CASE resp = "200" ->
                /\ circuit_breaker' = record_success(circuit_breaker)
                /\ consec' = 0
                /\ apply_result' = "observation"
                /\ RecordTrial
         [] resp = "200_undecodable" ->
                /\ circuit_breaker' = record_failure(record_success(circuit_breaker), now)
                /\ consec' = 1
                /\ apply_result' = "null"
                /\ SkipTrial
         [] resp = "5xx" ->
                /\ pc' = "sleep"
                /\ UNCHANGED <<circuit_breaker, consec, apply_result, sessionVars,
                               history, calls, trial_id>>
         [] resp = "timeout" ->
                /\ circuit_breaker' = record_failure(circuit_breaker, now)
                /\ consec' = consec + 1
                /\ pc' = "sleep"
                /\ UNCHANGED <<apply_result, sessionVars, history, calls, trial_id>>
         [] resp \in {"4xx", "error"} ->
                /\ circuit_breaker' = record_failure(circuit_breaker, now)
                /\ consec' = consec + 1
                /\ apply_result' = "null"
                /\ SkipTrial

\* The awaited backoff sleep ends: the next attempt, or the end of the retries.
SleepDone ==
    /\ pc = "sleep"
    /\ UNCHANGED otherVars
    /\ UNCHANGED <<stop_flag, runs, now, stopAccepted, healthChecks,
                   circuit_breaker, consec, last_response>>
    /\ IF has_next_attempt(attempt)
       THEN /\ attempt' = attempt + 1
            /\ posts' = posts + 1
            /\ pc' = "post"
            /\ UNCHANGED <<sessionVars, history, calls, trial_id, apply_result>>
       ELSE /\ apply_result' = "null"
            /\ UNCHANGED <<attempt, posts>>
            /\ SkipTrial

\* worker.stop()
WorkerStop ==
    /\ AtSuspension
    /\ ~stop_flag
    /\ stop_flag' = TRUE
    /\ UNCHANGED otherVars
    /\ UNCHANGED <<sessionVars, pc, trial_id, history, calls, runs, now, stopAccepted,
                   healthChecks, clientVars>>

\* ------------------------------------------------ the other tasks
\* POST /v1/optimization/sessions/{id}/stop -> SessionManager.stop_session
StopSession ==
    /\ AtSuspension
    /\ status' = stop_session(status)
    /\ UNCHANGED otherVars
    /\ stopAccepted' = (stopAccepted \/ status = "RUNNING")
    /\ disk' = IF status = "RUNNING"
               THEN Snapshot(status', trials, best_result)
               ELSE disk
    /\ UNCHANGED <<trials, best_result, pc, stop_flag, trial_id, history, calls, runs,
                   now, healthChecks, clientVars>>

\* ExecutorClient.health_check
HealthCheck(healthy) ==
    /\ AtSuspension
    /\ healthChecks < MaxHealth
    /\ healthChecks' = healthChecks + 1
    /\ UNCHANGED otherVars
    /\ IF healthy
       THEN /\ circuit_breaker' = record_success(circuit_breaker)
            /\ consec' = 0
       ELSE /\ circuit_breaker' = record_failure(circuit_breaker, now)
            /\ consec' = consec + 1
    /\ UNCHANGED <<sessionVars, pc, stop_flag, trial_id, history, calls, runs, now,
                   stopAccepted, attempt, posts, last_response, apply_result>>

\* The clock advances while the worker is suspended.
Tick ==
    /\ AtSuspension
    /\ now < MaxTime
    /\ now' = now + 1
    /\ UNCHANGED otherVars
    /\ UNCHANGED <<sessionVars, pc, stop_flag, trial_id, history, calls, runs,
                   stopAccepted, healthChecks, clientVars>>

Next ==
    \/ Run
    \/ LoopTop
    \/ \E resp \in Responses : PostReturns(resp)
    \/ SleepDone
    \/ WorkerStop
    \/ StopSession
    \/ \E healthy \in BOOLEAN : HealthCheck(healthy)
    \/ Tick

Spec == Init /\ [][Next]_vars

\* ------------------------------------------------ a worker on a loaded session
\* The SessionManager loads every snapshot file at start (_load_all_sessions),
\* whatever status it holds; a worker constructed for such a session runs as
\* any other.
InitReload ==
    /\ \E s \in Statuses : InitLoaded(s)
    /\ InitSessionApi /\ InitBackoff
    /\ InitOptimizer /\ InitAnalyzer /\ InitConverter /\ InitStore

SpecReload == InitReload /\ [][Next]_vars

\* The worker's own steps are taken once they can be: the event loop resumes
\* a ready coroutine, a sleep ends, and every executor call returns.
WorkerAdvances ==
    \/ LoopTop
    \/ \E resp \in Responses : PostReturns(resp)
    \/ SleepDone

WorkerFairness == WF_vars(WorkerAdvances)

\* One worker is started once, on the PENDING session; the stop handlers
\* and the clock run beside it (nothing in the repository calls health_check).
NextOneRun ==
    \/ (pc = "idle" /\ Run)
    \/ LoopTop
    \/ \E resp \in Responses : PostReturns(resp)
    \/ SleepDone
    \/ WorkerStop
    \/ StopSession
    \/ Tick

SpecFair == Init /\ [][NextOneRun]_vars /\ WorkerFairness

\* ------------------------------------------------ the session object on its own
allVars == <<vars, otherVars>>

\* The files _save_session can leave behind when the process dies inside it:
\* before open(), between open(file, "w") (which truncates) and the end of
\* json.dump, or after the write.
crashed_save(old, new) ==
    {old, [snap |-> new, whole |-> FALSE], [snap |-> new, whole |-> TRUE]}

\* update_session / _save_session of the session object `new`
Save(new) ==
    \/ /\ file' = [snap |-> new, whole |-> TRUE]
       /\ UNCHANGED <<proc, crashes>>
    \/ /\ crashes < MaxCrashes
       /\ file' \in crashed_save(file, new)
       /\ proc' = "down"
       /\ crashes' = crashes + 1

Called(op, raised, returned) ==
    last_call' = [op |-> op, raised |-> raised, returned |-> returned]

\* session.transition_to_running(); manager.update_session(session)
CallRunning ==
    /\ proc = "up" /\ in_sessions
    /\ LET r == transition_to_running(session.status) IN
       IF r = Raise
       THEN /\ Called("transition_to_running", TRUE, "none")
            /\ UNCHANGED <<session, file, proc, crashes>>
       ELSE /\ Called("transition_to_running", FALSE, "none")
            /\ session' = [session EXCEPT !.status = r, !.started_at = utcnow,
                                          !.updated_at = utcnow]
            /\ Save(session')
    /\ UNCHANGED <<in_sessions, utcnow, raised_error, vars, backoffVars, moreVars>>

\* session.transition_to_stopping(); manager.update_session(session)
CallStopping ==
    /\ proc = "up" /\ in_sessions
    /\ LET r == transition_to_stopping(session.status) IN
       IF r = Raise
       THEN /\ Called("transition_to_stopping", TRUE, "none")
            /\ UNCHANGED <<session, file, proc, crashes>>
       ELSE /\ Called("transition_to_stopping", FALSE, "none")
            /\ session' = [session EXCEPT !.status = r, !.updated_at = utcnow]
            /\ Save(session')
    /\ UNCHANGED <<in_sessions, utcnow, raised_error, vars, backoffVars, moreVars>>

\* session.transition_to_completed(); manager.update_session(session)
CallCompleted ==
    /\ proc = "up" /\ in_sessions
    /\ LET r == transition_to_completed(session.status) IN
       IF r = Raise
       THEN /\ Called("transition_to_completed", TRUE, "none")
            /\ UNCHANGED <<session, file, proc, crashes>>
       ELSE /\ Called("transition_to_completed", FALSE, "none")
            /\ session' = [session EXCEPT !.status = r, !.completed_at = utcnow,
                                          !.updated_at = utcnow]
            /\ Save(session')
    /\ UNCHANGED <<in_sessions, utcnow, raised_error, vars, backoffVars, moreVars>>

\* The except branch of the worker's run(), with e the exception caught:
\* session.transition_to_failed(reason=str(e)); manager.update_session(session).
\* The method has the parameter `reason` and does not use it, and the
\* session has no field for it.
CallFailed ==
    /\ proc = "up" /\ in_sessions
    /\ \E e \in Errors : raised_error' = e
    /\ Called("transition_to_failed", FALSE, "none")
    /\ session' = [session EXCEPT !.status = transition_to_failed(session.status),
                                  !.completed_at = utcnow, !.updated_at = utcnow]
    /\ Save(session')
    /\ UNCHANGED <<in_sessions, utcnow, vars, backoffVars, moreVars>>

\* session.add_trial(trial); manager.update_session(session)
AddTrial ==
    /\ proc = "up" /\ in_sessions
    /\ Len(session.trials) < MaxAdd
    /\ \E score \in Scores \cup {NoScore} :
          LET trial == [trial_id |-> Len(session.trials), severity_score |-> score] IN
          /\ session' = [session EXCEPT
                            !.trials = Append(session.trials, trial),
                            !.updated_at = utcnow,
                            !.best_result = add_trial_best(session.best_result, trial)]
          /\ Save(session')
    /\ Called("add_trial", FALSE, "none")
    /\ UNCHANGED <<in_sessions, utcnow, raised_error, vars, backoffVars, moreVars>>

\* manager.stop_session(id): returns the session object
CallStopSession ==
    /\ proc = "up" /\ in_sessions
    /\ LET r == stop_session(session.status) IN
       /\ Called("stop_session", FALSE, r)
       /\ IF r # session.status
          THEN /\ session' = [session EXCEPT !.status = r, !.completed_at = utcnow,
                                             !.updated_at = utcnow]
               /\ Save(session')
          ELSE UNCHANGED <<session, file, proc, crashes>>
    /\ UNCHANGED <<in_sessions, utcnow, raised_error, vars, backoffVars, moreVars>>

\* The process dies outside _save_session.
Crash ==
    /\ proc = "up"
    /\ crashes < MaxCrashes
    /\ proc' = "down"
    /\ crashes' = crashes + 1
    /\ UNCHANGED <<session, in_sessions, file, utcnow, last_call, raised_error,
                   vars, backoffVars, moreVars>>

\* A new process: SessionManager.__init__ runs _load_all_sessions, which
\* skips a file json.load cannot parse.
Restart ==
    /\ proc = "down"
    /\ proc' = "up"
    /\ in_sessions' = file.whole
    /\ session' = IF file.whole THEN file.snap ELSE session
    /\ Called("load_all_sessions", FALSE, "none")
    /\ UNCHANGED <<file, utcnow, crashes, raised_error, vars, backoffVars, moreVars>>

\* datetime.utcnow() advances.
ClockTick ==
    /\ utcnow < MaxUtc
    /\ utcnow' = utcnow + 1
    /\ UNCHANGED <<session, in_sessions, file, proc, last_call, crashes, raised_error,
                   vars, backoffVars, moreVars>>

NextSession ==
    \/ CallRunning
    \/ CallStopping
    \/ CallCompleted
    \/ CallFailed
    \/ AddTrial
    \/ CallStopSession
    \/ Crash
    \/ Restart
    \/ ClockTick

SpecSession == Init /\ [][NextSession]_allVars

\* ================================================================ claims
\* The worker's own steps (everything run() does between two awaits).
WorkerStep ==
    \/ Run
    \/ LoopTop
    \/ \E resp \in Responses : PostReturns(resp)
    \/ SleepDone

\* The edges of the session state machine other than the ones into FAILED.
Edges == {<<"PENDING", "RUNNING">>, <<"RUNNING", "STOPPING">>,
          <<"RUNNING", "COMPLETED">>, <<"STOPPING", "COMPLETED">>}

\* The step is the top of a loop iteration that goes on to propose().
IterationBegins == LoopTop /\ trial_id < max_trials /\ ~stop_flag

\* The step sends a request to the executor's policy endpoint.
Sends == pc # "post" /\ pc' = "post"

\* The step calls record_success / record_failure exactly once.
RecordsSuccess == PostReturns("200") \/ HealthCheck(TRUE)

RecordsFailure ==
    \/ PostReturns("timeout")
    \/ PostReturns("4xx")
    \/ PostReturns("error")
    \/ HealthCheck(FALSE)

\* C1: every change of the session's status follows one of the edges
\* PENDING->RUNNING, RUNNING->STOPPING, RUNNING->COMPLETED, STOPPING->COMPLETED,
\* or is a change to FAILED made by a worker step (its except branch).
C1_StatusFollowsGraph ==
    [][status' # status =>
          \/ <<status, status'>> \in Edges
          \/ (status' = "FAILED" /\ WorkerStep)]_vars

\* C1 witness: a stop request moved a RUNNING session to COMPLETED while the
\* worker had an executor call in flight.
C1_Witness == status = "COMPLETED" /\ stopAccepted /\ pc = "post"

\* C2: once the status is COMPLETED or FAILED, no step changes it.
C2_TerminalIsFinal ==
    [][(status = "COMPLETED" \/ status = "FAILED") => (status' = status)]_vars

\* C3: once the status is COMPLETED, no step appends a trial.
C3_NoTrialAfterCompleted ==
    [][status = "COMPLETED" => (Len(trials') = Len(trials))]_vars

\* C4: after a stop request was accepted for a RUNNING session, the worker
\* starts no further iteration (no propose(), no executor apply).
C4_NoIterationAfterStop ==
    [][stopAccepted => ~IterationBegins]_vars

\* C5: trials[i].trial_id = i for every index i (0-based) of the trial list.
C5_TrialIdsContiguous ==
    \A k \in 1..Len(trials) : trials[k].trial_id = k - 1

\* C6: (a) after failure_threshold or more failures recorded in a row, and while
\* recovery_timeout has not elapsed, the breaker is Open, and (b) an apply call
\* started then returns null without sending a request; (c) a failure recorded
\* in Closed that brings the run of failures to fewer than failure_threshold
\* leaves the breaker Closed.
C6_TripsAtThreshold ==
    /\ [](consec >= failure_threshold /\ ~Elapsed(circuit_breaker, now)
             => circuit_breaker.state = OPEN)
    /\ [][/\ (/\ IterationBegins
              /\ pc' # "done"
              /\ consec >= failure_threshold
              /\ ~Elapsed(circuit_breaker, now))
                 => (apply_result' = "null" /\ posts' = 0 /\ ~Sends)
          /\ (/\ RecordsFailure
              /\ circuit_breaker.state = CLOSED
              /\ consec' < failure_threshold)
                 => circuit_breaker'.state = CLOSED]_vars

\* C6 witness: exactly failure_threshold failures in a row were recorded and the
\* next apply call was refused without a request.
C6_Witness ==
    /\ consec = failure_threshold
    /\ circuit_breaker.state = OPEN
    /\ apply_result = "null"
    /\ posts = 0
    /\ pc = "top"

\* C7: no request is sent while the breaker is Open and recovery_timeout has
\* not elapsed.
C7_NoSendWhileOpen ==
    [][Sends => ~(circuit_breaker.state = OPEN /\ ~Elapsed(circuit_breaker, now))]_vars

\* C8: an apply call is admitted only when no HalfOpen probe is outstanding:
\* no call starts sending while the breaker is already HalfOpen.
C8_OneProbe ==
    [][IterationBegins /\ Sends => (circuit_breaker.state # HALF_OPEN)]_vars

\* C9: a success recorded in HalfOpen gives Closed with failure count 0; a
\* failure recorded in HalfOpen gives Open with the trip time set to now; a
\* success recorded in Closed gives failure count 0.
C9_RecordedOutcomes ==
    [][/\ (RecordsSuccess /\ circuit_breaker.state = HALF_OPEN)
              => (/\ circuit_breaker'.state = CLOSED
                  /\ circuit_breaker'.failure_count = 0)
       /\ (RecordsFailure /\ circuit_breaker.state = HALF_OPEN)
              => (/\ circuit_breaker'.state = OPEN
                  /\ circuit_breaker'.last_failure_time = now)
       /\ (RecordsSuccess /\ circuit_breaker.state = CLOSED)
              => (/\ circuit_breaker'.state = CLOSED
                  /\ circuit_breaker'.failure_count = 0)]_vars

\* C9 witness: with no health check made, a call was admitted at failure count
\* failure_threshold (so as the HalfOpen probe), its first request failed, and
\* the breaker is Open again with the trip time now.
C9_Witness ==
    /\ healthChecks = 0
    /\ posts = 1
    /\ last_response = "4xx"
    /\ apply_result = "null"
    /\ circuit_breaker.failure_count = failure_threshold + 1
    /\ circuit_breaker.state = OPEN
    /\ circuit_breaker.last_failure_time = now

\* C10 as claimed: apply returns null only when the breaker refused the call
\* or all max_retries attempts were made.
C10_NullOnlyExhaustedOrOpen ==
    apply_result = "null" => (posts = 0 \/ posts = max_retries)

\* C10 as amended: apply returns null only when the breaker refused the call,
\* when all max_retries attempts ended in a 5xx or a timeout/connect error, or
\* when an attempt ended in a failure that is not retried (a 4xx, any other
\* exception, a 200 whose body does not decode); it returns an observation
\* only for an attempt answered 200.
C10_NullCauses ==
    /\ apply_result = "null" =>
          \/ posts = 0
          \/ (posts = max_retries /\ last_response \in {"5xx", "timeout"})
          \/ last_response \in {"4xx", "error", "200_undecodable"}
    /\ apply_result = "observation" => last_response = "200"

\* C10 witness: a call returned null after a single 4xx answer, with attempts
\* left.
C10_Witness ==
    /\ apply_result = "null"
    /\ posts = 1
    /\ posts < max_retries
    /\ last_response = "4xx"

\* The step is one in which apply_policy returns None to the worker.
ApplyReturnsNull ==
    \/ (IterationBegins /\ pc' = "top")
    \/ PostReturns("4xx")
    \/ PostReturns("error")
    \/ PostReturns("200_undecodable")
    \/ (SleepDone /\ ~has_next_attempt(attempt))

\* C11: a 4xx answer ends the call at once: apply returns null, no further
\* request is sent in the call, no backoff sleep is taken, and exactly one
\* failure is recorded on the breaker.
C11_NoRetryOn4xx ==
    [][PostReturns("4xx") =>
          /\ apply_result' = "null"
          /\ pc' = "top"
          /\ posts' = posts
          /\ attempt' = attempt
          /\ circuit_breaker'.failure_count = circuit_breaker.failure_count + 1
          /\ consec' = consec + 1]_vars

\* C11 witness: the first request of a call was answered 4xx; the call is over
\* with one request sent and one failure on the breaker.
C11_Witness ==
    /\ last_response = "4xx"
    /\ apply_result = "null"
    /\ pc = "top"
    /\ posts = 1
    /\ circuit_breaker.failure_count = 1

\* C13: when apply_policy returns None the worker appends no trial, records
\* nothing with the optimizer, leaves the status as it is (so a RUNNING session
\* stays RUNNING, not FAILED) and goes to the top of the loop with the next
\* trial_id.
C13_NullSkipsTrial ==
    [][ApplyReturnsNull =>
          /\ trials' = trials
          /\ best_result' = best_result
          /\ history' = history
          /\ status' = status
          /\ pc' = "top"
          /\ trial_id' = trial_id + 1]_vars

\* C13 witness: the first call returned None after a request; the session is
\* RUNNING with no trial and the loop is at the top of iteration 1.
C13_Witness ==
    /\ apply_result = "null"
    /\ posts >= 1
    /\ status = "RUNNING"
    /\ trials = <<>>
    /\ pc = "top"
    /\ trial_id = 1

\* C14: every observation the executor returns is scored and recorded as a
\* trial, also one on which a sub-scorer raises.
C14_ObservationAlwaysRecorded ==
    [][PostReturns("200") => (Len(trials') = Len(trials) + 1)]_vars

\* C19: wherever another task can run, the snapshot on disk holds the
\* session's status, trials and best result as they are in memory.
C19_SnapshotCurrent ==
    AtSuspension =>
        /\ disk.status = status
        /\ disk.trials = trials
        /\ disk.best_result = best_result

\* C19 witness: a trial was added, a stop request completed the session while a
\* call is in flight, and the snapshot holds all of it.
C19_Witness ==
    /\ pc = "post"
    /\ stopAccepted
    /\ status = "COMPLETED"
    /\ Len(trials) >= 1
    /\ best_result # NoBest
    /\ disk.best_result = best_result

\* ------------------------------------------------ one apply_policy call and its backoff
\* (variant: the delay is not capped by max_delay)
backoff_delay_uncapped(a, base, cap) == base * 2^a

\* _delay_with_backoff: delay = min(max_delay, base_delay * 2 ** attempt)
backoff_delay(a, base, cap) ==
    IF cap < base * 2^a THEN cap ELSE base * 2^a

\* _delay_with_backoff: jitter = delay * (jitter_percent / 100.0)
backoff_jitter(delay, pct) == (delay * pct) \div 100

\* ExecutorClient(base_delay=..., max_delay=..., jitter_percent=...), in units
\* of 10 ms: the defaults, a low cap and no jitter.
InitCall ==
    /\ InitWorker
    /\ InitSessionApi
    /\ InitOptimizer /\ InitAnalyzer /\ InitConverter /\ InitStore
    /\ base_delay \in {50}
    /\ max_delay \in {80, 800}
    /\ jitter_percent \in {0, 10}
    /\ call_attempt = 0
    /\ call_pc = "post"
    /\ sleeps = <<>>

\* The post of attempt call_attempt ends in a 5xx answer or in a
\* TimeoutException/ConnectError: _delay_with_backoff(attempt) sleeps
\* delay + random.uniform(-jitter, jitter), then `continue`.
CallRetries(resp) ==
    /\ call_pc = "post"
    /\ resp \in {"5xx", "timeout"}
    /\ LET delay == backoff_delay(call_attempt, base_delay, max_delay)
           jitter == backoff_jitter(delay, jitter_percent)
       IN  \E u \in (0 - jitter)..jitter :
              sleeps' = Append(sleeps, delay + u)
    /\ call_attempt' = call_attempt + 1
    /\ call_pc' = IF has_next_attempt(call_attempt) THEN "post" ELSE "returned"
    /\ UNCHANGED <<base_delay, max_delay, jitter_percent, vars, sessionApiVars, moreVars>>

\* The post ends the call: 200, a status below 500, or another exception.
CallEnds(resp) ==
    /\ call_pc = "post"
    /\ resp \in {"200", "200_undecodable", "4xx", "error"}
    /\ call_pc' = "returned"
    /\ UNCHANGED <<base_delay, max_delay, jitter_percent, call_attempt, sleeps,
                   vars, sessionApiVars, moreVars>>

\* The next apply_policy call of the same client.
CallAgain ==
    /\ call_pc = "returned"
    /\ call_pc' = "post"
    /\ call_attempt' = 0
    /\ sleeps' = <<>>
    /\ UNCHANGED <<base_delay, max_delay, jitter_percent, vars, sessionApiVars, moreVars>>

NextCall ==
    \/ \E resp \in Responses : CallRetries(resp)
    \/ \E resp \in Responses : CallEnds(resp)
    \/ CallAgain

SpecBackoff == InitCall /\ [][NextCall]_allVars

\* ------------------------------------------------ claims on the session object
ScoredScores(trials_) ==
    {trials_[i].severity_score : i \in {k \in 1..Len(trials_) : trials_[k].severity_score # NoScore}}

MaxOf(S) == CHOOSE m \in S : \A x \in S : x <= m

\* The read-only property best_score.
best_score(s) == IF s.best_result = NoBest THEN 0 ELSE s.best_result.severity_score

\* C15: after every add_trial the best result is absent exactly when no
\* trial has a score, and otherwise its score is the maximum severity_score
\* over the scored trials of the session.
C15_BestIsMaxScored ==
    /\ (session.best_result = NoBest) <=> (ScoredScores(session.trials) = {})
    /\ session.best_result # NoBest =>
          session.best_result.severity_score = MaxOf(ScoredScores(session.trials))

C15_Witness ==
    /\ last_call.op = "add_trial"
    /\ Len(session.trials) = 2
    /\ session.trials[1].severity_score = 0
    /\ session.trials[2].severity_score = 7
    /\ session.best_result = [severity_score |-> 7, trial_id |-> 1]

\* C16: over the life of a session object the best_score read after each
\* appended trial never decreases, whatever the scores of the trials are.
C16_BestScoreMonotone ==
    [][proc = "up" => (best_score(session') >= best_score(session))]_allVars

C16_Witness ==
    /\ last_call.op = "add_trial"
    /\ Len(session.trials) = 2
    /\ session.trials[1].severity_score = 7
    /\ session.trials[2].severity_score = 0
    /\ best_score(session) = 7

\* C17: stop_session on a session that is not RUNNING changes nothing: the
\* session object (status, trials, best result, timestamps) and the file on
\* disk stay as they are and the status returned is the status it had, so
\* that a repeated call finds the same state again.
C17_StopNonRunningNoOp ==
    [][(CallStopSession /\ session.status # "RUNNING") =>
          /\ session' = session
          /\ file' = file
          /\ proc' = proc
          /\ last_call'.returned = session.status]_allVars

C17_Witness ==
    /\ last_call = [op |-> "stop_session", raised |-> FALSE, returned |-> "STOPPING"]
    /\ session.status = "STOPPING"
    /\ file.snap.status = "STOPPING"

IllegalTransitionCall ==
    \/ (CallRunning /\ session.status # "PENDING")
    \/ (CallStopping /\ session.status # "RUNNING")
    \/ (CallCompleted /\ session.status \notin {"RUNNING", "STOPPING"})

\* C18: transition_to_running from a status other than PENDING,
\* transition_to_stopping from a status other than RUNNING and
\* transition_to_completed from a status other than RUNNING or STOPPING
\* raise, and the status and the timestamps of the session stay unchanged.
C18_IllegalTransitionRaises ==
    [][IllegalTransitionCall =>
          /\ last_call'.raised
          /\ session'.status = session.status
          /\ session'.started_at = session.started_at
          /\ session'.completed_at = session.completed_at
          /\ session'.updated_at = session.updated_at]_allVars

C18_Witness ==
    /\ last_call = [op |-> "transition_to_completed", raised |-> TRUE, returned |-> "none"]
    /\ session.status = "PENDING"
    /\ utcnow > session.updated_at
    /\ session.completed_at = NoTime

\* C20: save is atomic: whenever the process dies, the file of the session
\* holds a whole snapshot (the previous one or the new one), and a process
\* started afterwards has the session.
C20_SaveAtomic ==
    /\ file.whole
    /\ (proc = "up" => in_sessions)

\* ------------------------------------------------ claims on the backoff
\* d_i = min(max_delay, base_delay * 2^i)
d(i) == IF base_delay * 2^i <= max_delay THEN base_delay * 2^i ELSE max_delay

RECURSIVE SumSeq(_)
SumSeq(q) == IF q = <<>> THEN 0 ELSE Head(q) + SumSeq(Tail(q))

RECURSIVE SumD(_)
SumD(n) == IF n = 0 THEN 0 ELSE d(n - 1) + SumD(n - 1)

\* C12: in one apply call with n = max_retries attempts, the sleep after
\* failed attempt i lies in [d_i(1-j), d_i(1+j)] with
\* d_i = min(max_delay, base_delay*2^i) and j = jitter_percent/100, and the
\* call sleeps at most the sum over i = 0..n-1 of d_i(1+j) in total
\* (both sides multiplied by 100).
C12_BackoffBounds ==
    /\ \A k \in 1..Len(sleeps) :
          /\ d(k - 1) * (100 - jitter_percent) <= 100 * sleeps[k]
          /\ 100 * sleeps[k] <= d(k - 1) * (100 + jitter_percent)
    /\ 100 * SumSeq(sleeps) <= SumD(max_retries) * (100 + jitter_percent)

C12_Witness ==
    /\ call_pc = "returned"
    /\ Len(sleeps) = max_retries
    /\ max_delay = 80
    /\ jitter_percent = 10
    /\ sleeps[1] = 45
    /\ sleeps[2] = 88

\* ------------------------------------------------ claims on the worker, continued
\* C27: a session stopped while RUNNING ends COMPLETED: once stop_session
\* was accepted and the (first) run of the worker has returned, the status
\* is COMPLETED, never FAILED.
C27_StoppedEndsCompleted ==
    (stopAccepted /\ runs = 1 /\ pc = "done") => status = "COMPLETED"

\* C28: a 5xx answer counts as one failure toward the circuit breaker, as a
\* timeout does.
C28_5xxCountsAsFailure ==
    [][PostReturns("5xx") =>
          (circuit_breaker'.failure_count = circuit_breaker.failure_count + 1)]_vars

WorkerRunning == pc \in {"top", "post", "sleep"}

\* The worker leaves its loop with the session still RUNNING.
LoopEndsRunning ==
    LoopTop /\ (trial_id >= max_trials \/ stop_flag) /\ status = "RUNNING"

\* C30: a worker started on a PENDING session terminates when every executor
\* call returns: it begins at most max_trials iterations, it leaves the
\* session COMPLETED when it ends its loop with no error and no stop of the
\* session, and whenever it has returned the status is terminal.
C30_WorkerTerminates ==
    /\ [](trial_id <= max_trials)
    /\ [](pc = "done" => (status = "COMPLETED" \/ status = "FAILED"))
    /\ [][LoopEndsRunning => (status' = "COMPLETED" /\ pc' = "done")]_vars
    /\ (WorkerRunning ~> (pc = "done"))

C30_Witness ==
    /\ pc = "done" /\ runs = 1 /\ ~stopAccepted /\ ~stop_flag
    /\ trial_id = max_trials /\ status = "COMPLETED" /\ Len(trials) = max_trials

\* The failure reason a session record carries.
NoReason == "none"
failure_reason(s) == IF "failure_reason" \in DOMAIN s THEN s.failure_reason ELSE NoReason

\* C29: when an exception reaches the except branch of the worker loop the
\* session becomes FAILED and the session and its persisted snapshot carry
\* the text of the error as the failure reason.
C29_FailedCarriesReason ==
    (last_call.op = "transition_to_failed" /\ proc = "up") =>
        /\ session.status = "FAILED"
        /\ failure_reason(session) = raised_error
        /\ failure_reason(file.snap) = raised_error

\* ------------------------------------------------ optimizer/core.py
\* Two OptimizerCore objects built from the same search space in one
\* process (the constructor takes no seed) and fed the same results.

\* PointSelector.select_next_point seeds numpy with random_state = 42 on every
\* call and the forest is built with random_state = 42: what it returns is a
\* function of the history alone.  `candidates` is a list with one array of
\* n_candidates samples per dimension; the surrogate, not fitted (record()'s
\* fit raises on a categorical column), scores len(candidates) entries alike,
\* argmax is 0 and candidates[0] is returned: the samples drawn for the first
\* dimension.  candidate_sample(i) is the i-th of them (with seed 42 the
\* draws from two categories start first, second).
candidate_sample(i) ==
    IF i = 1 THEN Category("abort") ELSE Category("delay")

\* point_to_dict gives the i-th dimension the i-th entry of that array.
select_next_point(h) ==
    [fault_type |-> candidate_sample(1), percentage |-> candidate_sample(2)]

\* OptimizerCore.propose(), called on both proposers.  With an empty history
\* each draws from the `random` module's global generator, which nothing
\* seeds; otherwise each asks the selector, which returns its point or raises.
Propose ==
    /\ Len(opt_plans[1]) < MaxPropose
    /\ IF Len(opt_history) = 0
       THEN /\ \E p1 \in Points : \E p2 \in Points :
                  opt_plans' = <<Append(opt_plans[1], p1), Append(opt_plans[2], p2)>>
            /\ opt_source' = "uniform"
       ELSE /\ \E raises \in BOOLEAN :
                  LET p == IF raises THEN NoPoint ELSE select_next_point(opt_history)
                  IN  opt_plans' = <<Append(opt_plans[1], p), Append(opt_plans[2], p)>>
            /\ opt_source' = "selector"
    /\ UNCHANGED <<opt_history, vars, sessionApiVars, backoffVars, storeVars, analyzerVars, converterVars>>

\* OptimizerCore.record(plan, score), called on both proposers.
Record ==
    /\ Len(opt_history) < MaxRecord
    /\ \E score \in Scores : opt_history' = Append(opt_history, score)
    /\ UNCHANGED <<opt_plans, opt_source, vars, sessionApiVars, backoffVars, storeVars,
                   analyzerVars, converterVars>>

NextOptimizer == Propose \/ Record

SpecOptimizer == Init /\ [][NextOptimizer]_allVars

\* C21: while fewer than cold_start_n results have been recorded no propose()
\* consults the surrogate/EI selector: every plan is a uniform sample.
C21_ColdStartUniform ==
    Len(opt_history) < cold_start_n => opt_source # "selector"

\* C22: two proposers with the same seed and space, starting from an empty
\* history and fed the same results, return the same sequence of plans.
C22_SameSeedSamePlans == opt_plans[1] = opt_plans[2]

\* The value is one of the dimension's own domain.
InDomain(dim, v) ==
    IF dim.type = "categorical"
    THEN v.category \in dim.values
    ELSE v.category = "" /\ v.number >= dim.low /\ v.number <= dim.high

\* C33: every plan propose() returned, in the cold-start phase and in the
\* surrogate-guided one, gives each dimension a value of that dimension's
\* own domain.
C33_PlanInDomain ==
    \A k \in 1..2 : \A i \in 1..Len(opt_plans[k]) :
        opt_plans[k][i] # NoPoint =>
            /\ InDomain(SearchSpace[1], opt_plans[k][i].fault_type)
            /\ InDomain(SearchSpace[2], opt_plans[k][i].percentage)

\* ------------------------------------------------ the analyzer on its own
\* AnalyzerService(...) is built with another configuration.
Build ==
    /\ \E variant \in Analyzers : \E lat \in LatencyConfigs : \E w \in WeightConfigs :
          analyzer' = AnalyzerService(variant, lat, w)
    /\ severity' = <<NoSeverity, NoSeverity>>
    /\ UNCHANGED <<bug_scored, vars, sessionApiVars, backoffVars, storeVars, optimizerVars, converterVars>>

\* analyzer.calculate_severity(observation)
CalculateSeverity ==
    /\ analyzer.built
    /\ \E obs \in Observations :
          severity' = <<severity[2], calculate_severity(analyzer, obs)>>
    /\ UNCHANGED <<analyzer, bug_scored, vars, sessionApiVars, backoffVars, storeVars,
                   optimizerVars, converterVars>>

\* BugScorer.score(observation), a static method of either analyzer
ScoreBug ==
    /\ \E variant \in Analyzers : \E o \in BugObservations :
          bug_scored' = [called |-> TRUE, variant |-> variant, obs |-> o,
                         score |-> BugScorer_score(variant, o)]
    /\ UNCHANGED <<analyzer, severity, vars, sessionApiVars, backoffVars, storeVars,
                   optimizerVars, converterVars>>

NextAnalyzer == Build \/ CalculateSeverity

SpecAnalyzer == Init /\ [][NextAnalyzer]_allVars

\* Score_Perf as the specification writes it, in thousandths.
Score_Perf(B, T, A) ==
    IF B <= 0 \/ A = NoLatency THEN 0
    ELSE IF A >= T THEN 10000
    ELSE Clamp(0, 10000, ((A - B) * 9000) \div (T - B))

\* The example of the specification: status 503, latency 1200, baseline 200,
\* threshold 1000, weights 1/1/1.
Example503 ==
    /\ severity[2].called
    /\ severity[2].status_code = 503 /\ severity[2].latency_ms = 1200
    /\ analyzer.baseline = 200 /\ analyzer.threshold = 1000
    /\ analyzer.weights = <<1, 1, 1>>

\* C23: the performance score of every calculate_severity call equals the
\* piecewise Score_Perf of the specification (0 when B <= 0 or the latency
\* is missing, 10 when A >= T, otherwise clamp(0, 10, (A-B)/(T-B)*9)), and
\* the example with status 503 has the total 20/3.
C23_PerfIsPiecewise ==
    /\ severity[2].called =>
          severity[2].perf = Score_Perf(analyzer.baseline, analyzer.threshold,
                                        severity[2].latency_ms)
    /\ Example503 => 3 * severity[2].num = 20000 * severity[2].den

\* C24: with the analyzer fixed, of two calculate_severity calls the one
\* with the larger latency never gets the smaller performance score.
C24_PerfMonotone ==
    (/\ severity[1].called /\ severity[2].called
     /\ severity[1].latency_ms # NoLatency /\ severity[2].latency_ms # NoLatency
     /\ severity[1].latency_ms <= severity[2].latency_ms)
    => severity[1].perf <= severity[2].perf

C24_Witness ==
    /\ severity[1].called /\ severity[2].called
    /\ analyzer.variant = "boifi_recommender.analyzer"
    /\ analyzer.baseline = 100 /\ analyzer.threshold = 500
    /\ severity[1].latency_ms = 500 /\ severity[1].perf = 9000
    /\ severity[2].latency_ms = 600 /\ severity[2].perf = 9000

\* C25: an analyzer with w_bug = w_perf = w_struct = 0 can be built, and its
\* calculate_severity returns a total of 0 without raising.
C25_ZeroWeightsTotalZero ==
    (analyzer.weights = <<0, 0, 0>>) =>
        /\ analyzer.built
        /\ (severity[2].called => severity[2].num = 0)

\* ------------------------------------------------ the space converter on its own
\* SpaceConverter(config_file, conditional_strategy)
Configure ==
    /\ conditional_strategy' \in {"expand", "filter"}
    /\ point_dict' = EmptyDict
    /\ point_list' = [raised |-> FALSE, values |-> <<>>]
    /\ round_trip' = EmptyDict
    /\ UNCHANGED <<vars, sessionApiVars, backoffVars, storeVars, optimizerVars, analyzerVars>>

\* converter.dict_to_list(point_dict)
Encode ==
    /\ \E p \in Dicts :
          /\ point_dict' = p
          /\ point_list' = dict_to_list(conditional_strategy, p)
    /\ round_trip' = EmptyDict
    /\ UNCHANGED <<conditional_strategy, vars, sessionApiVars, backoffVars, storeVars,
                   optimizerVars, analyzerVars>>

\* converter.list_to_dict(point_list)
Decode ==
    /\ ~point_list.raised
    /\ Len(point_list.values) = Len(dimension_names(conditional_strategy))
    /\ round_trip' = list_to_dict(conditional_strategy, point_list.values)
    /\ UNCHANGED <<conditional_strategy, point_dict, point_list, vars, sessionApiVars,
                   backoffVars, storeVars, optimizerVars, analyzerVars>>

NextConverter == Configure \/ Encode \/ Decode

SpecConverter == Init /\ [][NextConverter]_allVars

\* The names of the dimensions of the converter's space.
ActiveNames == {dimension_names(conditional_strategy)[i] :
                   i \in 1..Len(dimension_names(conditional_strategy))}

\* The plan satisfies the space: categorical values in the value set,
\* numbers within bounds, whole numbers on the integer dimension, and a
\* value for the dimension that has no default.
SatisfiesSpace(p) ==
    /\ "percentage" \in p.keys
    /\ p.percentage >= PercentageBounds[1] /\ p.percentage <= PercentageBounds[2]
    /\ p.percentage % 10 = 0
    /\ "fault_type" \in p.keys => p.fault_type \in FaultTypes
    /\ ("delay_seconds" \in p.keys /\ "delay_seconds" \in ActiveNames) =>
          (p.delay_seconds >= DelayBounds[1] /\ p.delay_seconds <= DelayBounds[2])

Encoded == point_dict.keys # {} \/ point_list.raised
Decoded == round_trip.keys # {}

C37_BreakerInvariant ==
    /\ circuit_breaker.state = CLOSED =>
           circuit_breaker.failure_count < failure_threshold
    /\ circuit_breaker.state \in {OPEN, HALF_OPEN} =>
           /\ circuit_breaker.failure_count >= failure_threshold
           /\ circuit_breaker.last_failure_time # NoTime

\* C37 witness: after a health check, a HalfOpen breaker that has counted more
\* failures than the threshold (failures went on being recorded while Open).
C37_Witness ==
    /\ circuit_breaker.state = HALF_OPEN
    /\ circuit_breaker.failure_count > failure_threshold
    /\ healthChecks >= 1

\* The step is an apply_policy call (propose() returned a plan).
ApplyCalled == IterationBegins /\ status' # "FAILED"

\* C40: an apply call made while the breaker is Open is admitted, with the
\* breaker moved to HalfOpen, only when strictly more than recovery_timeout has
\* passed since last_failure_time; otherwise it returns null and sends
\* nothing.  Every recorded failure, a failed health check included, sets
\* last_failure_time to the current time, and so restarts the window.
C40_RecoveryWindow ==
    [][/\ (ApplyCalled /\ circuit_breaker.state = OPEN) =>
              IF now - circuit_breaker.last_failure_time > recovery_timeout
              THEN /\ circuit_breaker'.state = HALF_OPEN
                   /\ pc' = "post"
              ELSE /\ circuit_breaker' = circuit_breaker
                   /\ apply_result' = "null"
                   /\ posts' = 0
                   /\ pc' # "post"
       /\ RecordsFailure => (circuit_breaker'.last_failure_time = now)]_vars

\* C40 witness: a call refused exactly recovery_timeout after the last
\* recorded failure, which was a failed health check on an Open breaker.
C40_Witness ==
    /\ circuit_breaker.state = OPEN
    /\ consec = failure_threshold + 1
    /\ healthChecks = 1
    /\ now = circuit_breaker.last_failure_time + recovery_timeout
    /\ apply_result = "null"
    /\ posts = 0
    /\ pc = "top"

\* C38: with one worker on the session, the propose() calls, the apply_policy
\* calls and the recorded trials each number at most max_trials, and
\* progress_percent is at most 100; every finished iteration, one whose
\* apply_policy call returned None included, has used one unit of the budget
\* (at the top of the loop the calls made equal the loop variable).
C38_Budget ==
    /\ calls.propose <= max_trials
    /\ calls.apply <= calls.propose
    /\ trials_completed(trials) <= calls.apply
    /\ trials_completed(trials) <= max_trials
    /\ progress_percent(trials) <= 100
    /\ pc = "top" => (calls.propose = trial_id /\ calls.apply = trial_id)

\* C38 witness: a run that used its whole budget and completed with fewer
\* trials than max_trials, its last call having returned None.
C38_Witness ==
    /\ status = "COMPLETED"
    /\ pc = "done"
    /\ calls = [propose |-> max_trials, apply |-> max_trials]
    /\ trials_completed(trials) = max_trials - 1
    /\ progress_percent(trials) < 100
    /\ apply_result = "null"

\* C39: run() on a session whose status is not PENDING makes no propose()
\* call and no executor call, appends no trial, and ends with the session
\* FAILED (in memory and in the snapshot file) and the coroutine finished.
C39_RunOnStartedSessionFails ==
    [][(Run /\ status # "PENDING") =>
          /\ calls' = calls
          /\ posts' = posts
          /\ trials' = trials
          /\ status' = "FAILED"
          /\ disk' = Snapshot("FAILED", trials, best_result)
          /\ pc' = "done"]_vars

\* C39 witness: a session loaded with another status than PENDING, on which
\* the worker ran once: FAILED with no call made and no trial.
C39_Witness ==
    /\ runs = 1
    /\ pc = "done"
    /\ status = "FAILED"
    /\ disk = Snapshot("FAILED", <<>>, NoBest)
    /\ calls = [propose |-> 0, apply |-> 0]
    /\ posts = 0
    /\ trials = <<>>

\* ------------------------------------------------ the HTTP boundary and the store
\* main.py's handlers, SessionManager's methods and a worker, on one session
\* id.  Handlers and manager methods run without awaiting; the worker's run()
\* awaits the executor in each iteration, so the others interleave with it.
MaxStoreTrials == 2

notStoreVars ==
    <<vars, sessionApiVars, backoffVars, optimizerVars, analyzerVars, converterVars>>

\* update_session: `self._sessions[session.id] = session`, then _save_session
UpdateSession(s) ==
    /\ store_session' = s
    /\ store_has' = TRUE
    /\ store_file' = save_session(s)

\* POST /v1/optimization/sessions: the request model is validated, then
\* SessionManager.create_session stores and saves a new PENDING session and
\* the handler answers 202.  No worker is constructed or started.
PostSessions(space) ==
    /\ request_space = "none"
    /\ request_space' = space
    /\ IF validates(space)
       THEN /\ UpdateSession(CreatedSession)
            /\ response' = 202
       ELSE /\ response' = 422
            /\ UNCHANGED <<store_session, store_has, store_file>>
    /\ UNCHANGED <<worker_tasks, worker_pc, reader, deleted>>
    /\ UNCHANGED notStoreVars

\* Some caller constructs OptimizationWorker(session_id, ...) and runs it:
\* get_session, transition_to_running, update_session.
WorkerRun ==
    /\ response = 202
    /\ worker_pc = "none"
    /\ IF ~store_has
       THEN /\ worker_pc' = "done"
            /\ UNCHANGED <<store_session, store_has, store_file>>
       ELSE LET s == transition_to_running(store_session.status) IN
            IF s = Raise
            THEN /\ UpdateSession([store_session EXCEPT !.status = "FAILED"])
                 /\ worker_pc' = "done"
            ELSE /\ UpdateSession([store_session EXCEPT !.status = s])
                 /\ worker_pc' = "loop"
    /\ UNCHANGED <<request_space, response, worker_tasks, reader, deleted>>
    /\ UNCHANGED notStoreVars

\* One iteration with an observation: add_trial, update_session.
WorkerTrial ==
    /\ worker_pc = "loop"
    /\ store_session.trials < MaxStoreTrials
    /\ \E sev \in Scores :
          UpdateSession([store_session EXCEPT
                            !.trials = @ + 1,
                            !.best = IF sev > @ THEN sev ELSE @])
    /\ UNCHANGED <<request_space, response, worker_tasks, worker_pc, reader, deleted>>
    /\ UNCHANGED notStoreVars

\* The loop ends (the remaining iterations got no observation):
\* transition_to_completed, or the except branch, then update_session.
WorkerEnds ==
    /\ worker_pc = "loop"
    /\ LET s == transition_to_completed(store_session.status) IN
       UpdateSession([store_session EXCEPT
                         !.status = IF s = Raise THEN "FAILED" ELSE s])
    /\ worker_pc' = "done"
    /\ UNCHANGED <<request_space, response, worker_tasks, reader, deleted>>
    /\ UNCHANGED notStoreVars

\* POST .../stop: SessionManager.stop_session
PostStop ==
    /\ store_has
    /\ store_session.status = "RUNNING"
    /\ store_session' = [store_session EXCEPT !.status = stop_session(@)]
    /\ store_file' = save_session(store_session')
    /\ UNCHANGED <<request_space, response, store_has, worker_tasks, worker_pc,
                   reader, deleted>>
    /\ UNCHANGED notStoreVars

\* A reader calls get_session and keeps what it returns: the object that is
\* the value of _sessions[id], not a copy of it.
GetSession ==
    /\ store_has
    /\ ~reader.holds
    /\ reader' = [holds |-> TRUE, seen |-> store_session]
    /\ UNCHANGED <<request_space, response, store_has, store_session, store_file,
                   worker_tasks, worker_pc, deleted>>
    /\ UNCHANGED notStoreVars

\* delete_session finds the id, removes it from _sessions, unlinks the file
\* and returns True.
DeleteSession ==
    /\ store_has
    /\ store_has' = FALSE
    /\ store_file' = NoFile
    /\ deleted' = TRUE
    /\ UNCHANGED <<request_space, response, store_session, worker_tasks, worker_pc,
                   reader>>
    /\ UNCHANGED notStoreVars

NextStore ==
    \/ \E space \in RequestSpaces : PostSessions(space)
    \/ WorkerRun
    \/ WorkerTrial
    \/ WorkerEnds
    \/ PostStop
    \/ GetSession
    \/ DeleteSession

SpecStore == Init /\ [][NextStore]_allVars

\* What the reader's value shows now: it is the manager's object.
reader_value == store_session

\* C31: once delete_session has returned True, get_session finds nothing and
\* no snapshot file exists, in every later state.
C31_DeletedStaysGone == deleted => (~store_has /\ ~store_file.exists)

\* C32: what a reader got from get_session stays as it was when the reader
\* got it, whatever the worker does to the session afterwards.
C32_ReaderHoldsCopy == reader.holds => (reader_value = reader.seen)

\* C35: a create-session request with a malformed search space is answered
\* with a 4xx, no session is stored or saved, and no worker runs on it.
C35_MalformedSpaceRejected ==
    request_space \in MalformedSpaces =>
        /\ response >= 400 /\ response < 500
        /\ ~store_has
        /\ ~store_file.exists
        /\ worker_pc = "none"

\* C36: every session created through POST /v1/optimization/sessions has
\* exactly one worker task started for it.
C36_OneWorkerPerSession == response = 202 => worker_tasks = 1

\* ------------------------------------------------ the bug scorer on its own
NextBugScorer == ScoreBug

SpecBugScorer == Init /\ [][NextBugScorer]_allVars

\* Score_Bug as the specification writes it, in thousandths: the highest
\* matching rung of the ladder.
Score_Bug(o) ==
    IF o.status_code >= 500 /\ o.status_code <= 599 THEN 10000
    ELSE IF o.status_code >= 400 /\ o.status_code <= 499 THEN 8000
    ELSE IF \E i \in 1..Len(o.logs) : has_critical_keyword(o.logs[i]) THEN 6000
    ELSE IF o.error_rate > 0 THEN 3000
    ELSE 0

\* C34: the bug score of every observation is the highest matching rung of
\* the ladder: logs without a keyword do not give 6, and a missing status
\* code leaves the log and error-rate rungs in force.
C34_BugLadder == bug_scored.called => (bug_scored.score = Score_Bug(bug_scored.obs))

====
